---------------------------- MODULE Spec2Model ----------------------------
(***************************************************************************)
(* A model of parameter-schema (src/src/schema.ts): the Schema class       *)
(* hierarchy, its factories and fluent setters, and validate.              *)
(*                                                                         *)
(* JavaScript values are tagged records [k |-> kind, v |-> payload]; a     *)
(* schema instance is a record of its fields (the leading underscore of a  *)
(* private field is dropped: _range is range, _schema is fieldSchemas for  *)
(* ObjectSchema and schema for ObjectArraySchema).  The state is the       *)
(* schema instance under construction and the last validate call made on   *)
(* it (Spec).                                                              *)
(*                                                                         *)
(* merge changes an object that several instances may hold, which a value  *)
(* cannot show: MergeSpec keeps the objects that hold field schemas in a   *)
(* heap, and an ObjectSchema instance holds a reference into it.           *)
(***************************************************************************)
EXTENDS Integers, Sequences, FiniteSets, TLC

VARIABLES
    \* Spec: the schema instance, the last validate call made on it, and the
    \* constraints the caller has given it (history)
    schema, call, given,
    \* MergeSpec: the objects holding field schemas, the ObjectSchema
    \* instances, and the last method call
    mappings, instances, last

one == <<schema, call, given>>
heap == <<mappings, instances, last>>
vars == <<schema, call, given, mappings, instances, last>>

(***************************************************************************)
(* Bounds of the model.                                                    *)
(***************************************************************************)
\* longest array given to validate
MaxLen == 2
\* numbers given to validate are -1 .. MaxNum
MaxNum == 3
\* most objects holding field schemas (MergeSpec)
MaxMappings == 2
\* most ObjectSchema instances (MergeSpec)
MaxInstances == 3
\* Number.MAX_VALUE, the default of _max: above every number of the model
MAX_VALUE == 1000000

(***************************************************************************)
(* JavaScript values.                                                      *)
(***************************************************************************)
Undefined == [k |-> "undefined"]
Null == [k |-> "null"]
Num(n) == [k |-> "number", v |-> n]
Str(s) == [k |-> "string", v |-> s]
Bool(b) == [k |-> "boolean", v |-> b]
Arr(seq) == [k |-> "array", v |-> seq]
Obj(f) == [k |-> "object", v |-> f]

\* the object {} (also what Object.create(null) builds)
EmptyObject == Obj([key \in {} |-> Undefined])

\* property names used for fields; none of them is a property of a string,
\* a number, a boolean or an array
Keys == {"foo", "bar"}

(***************************************************************************)
(* ./utils (imported at schema.ts:1): the primitive type-tag predicates.   *)
(***************************************************************************)
isNil(x) == x.k \in {"undefined", "null"}
isValidString(x) == x.k = "string"
isValidNumber(x) == x.k = "number"
isValidBoolean(x) == x.k = "boolean"
isValidArray(x) == x.k = "array"

(***************************************************************************)
(* JavaScript operators used by schema.ts.                                 *)
(***************************************************************************)
\* !!x, and the left operand test of x || y
Truthy(x) ==
    CASE x.k \in {"undefined", "null"} -> FALSE
      [] x.k = "number" -> x.v # 0
      [] x.k = "string" -> x.v # ""
      [] x.k = "boolean" -> x.v
      [] OTHER -> TRUE

\* x || y
OrElse(x, y) == IF Truthy(x) THEN x ELSE y

\* range.includes(x), range an array
Includes(range, x) == \E i \in 1..Len(range.v) : range.v[i] = x

\* param[key] for key in Keys: only an object has such a property
Get(param, key) ==
    IF param.k = "object" /\ key \in DOMAIN param.v
    THEN param.v[key]
    ELSE Undefined

\* the names  for (const key in param)  enumerates: an object's own keys, the
\* indices of an array, the indices of a string (the model's strings have at
\* most one character)
EnumKeys(param) ==
    CASE param.k = "object" -> DOMAIN param.v
      [] param.k = "array" -> {ToString(i - 1) : i \in 1..Len(param.v)}
      [] param.k = "string" -> IF param.v = "" THEN {} ELSE {"0"}
      [] OTHER -> {}

\* param[key] for key in EnumKeys(param)
EnumGet(param, key) ==
    CASE param.k = "object" -> param.v[key]
      [] param.k = "array" ->
           param.v[CHOOSE i \in 1..Len(param.v) : ToString(i - 1) = key]
      [] OTHER -> param


(***************************************************************************)
(* Constructors and factories.  An options object is a function from the   *)
(* option names it has to their values; a name outside its DOMAIN is an    *)
(* option that was not passed (undefined).                                 *)
(***************************************************************************)
NoOptions == [name \in {} |-> Undefined]

Has(options, name) == name \in DOMAIN options

\* the predicates a caller installs (the validate option, setValidate):
\* () => true, () => false, and one that depends on its argument
CustomPredicates == {"always", "never", "picky"}

\* p(param) for a caller's predicate p; "picky" accepts null and undefined,
\* -1, the empty string, an object with a property foo and an array of one
\* element, and nothing else
CustomAccepts(p, param) ==
    CASE p = "always" -> TRUE
      [] p = "never" -> FALSE
      [] p = "picky" ->
           \/ param.k \in {"undefined", "null"}
           \/ param.k = "number" /\ param.v = -1
           \/ param.k = "string" /\ param.v = ""
           \/ param.k = "object" /\ "foo" \in DOMAIN param.v
           \/ param.k = "array" /\ Len(param.v) = 1

\* Schema.constructor
Schema(type, options) ==
    [ type |-> type,
      hasDefaultValue |-> Has(options, "defaultValue"),
      default |-> IF Has(options, "defaultValue")
                  THEN options.defaultValue ELSE Undefined,
      isRequired |-> IF Has(options, "required")
                        /\ isValidBoolean(options.required)
                     THEN options.required.v ELSE TRUE,
      validate |-> IF Has(options, "validate")
                   THEN options.validate ELSE "truthy" ]

\* the predicate a variant's constructor installs when options.validate is
\* not given
WithBuiltin(base, options) ==
    IF Has(options, "validate") THEN base
    ELSE [base EXCEPT !.validate = "builtin"]

\* StringSchema.constructor and StringArraySchema.constructor
StringSchema(type, options) ==
    [range |-> IF Has(options, "range") /\ ~isNil(options.range)
                  /\ Truthy(options.range)
               THEN options.range ELSE Undefined]
    @@ WithBuiltin(Schema(type, options), options)

\* NumberSchema.constructor and NumberArraySchema.constructor
NumberSchema(type, options) ==
    [min |-> IF Has(options, "min") THEN options.min ELSE 0,
     max |-> IF Has(options, "max") THEN options.max ELSE MAX_VALUE,
     range |-> IF Has(options, "range") /\ ~isNil(options.range)
               THEN options.range ELSE Undefined]
    @@ WithBuiltin(Schema(type, options), options)

\* BooleanSchema.constructor and BooleanArraySchema.constructor
BooleanSchema(type, options) == WithBuiltin(Schema(type, options), options)

\* ObjectSchema.constructor
ObjectSchema(options) ==
    [fieldSchemas |-> IF Has(options, "fieldSchemas")
                      THEN options.fieldSchemas
                      ELSE [key \in {} |-> Undefined],
     useValidate |-> Has(options, "validate")]
    @@ Schema("object", options)

\* ObjectArraySchema.constructor
ObjectArraySchema(options) ==
    [schema |-> IF Has(options, "schema")
                THEN options.schema ELSE ObjectSchema(NoOptions),
     useValidate |-> Has(options, "validate")]
    @@ Schema("object[]", options)

\* ArraySchema.constructor
ArraySchema(options) ==
    [schemas |-> IF Has(options, "schemas") THEN options.schemas ELSE <<>>,
     useValidate |-> Has(options, "validate")]
    @@ Schema("array", options)

\* Schema.string, Schema.stringArray, ..., Schema.array
string(options) == StringSchema("string", options)
stringArray(options) == StringSchema("string[]", options)
number(options) == NumberSchema("number", options)
numberArray(options) == NumberSchema("number[]", options)
boolean(options) == BooleanSchema("boolean", options)
booleanArray(options) == BooleanSchema("boolean[]", options)
object(options) == ObjectSchema(options)
objectArray(options) == ObjectArraySchema(options)
array(options) == ArraySchema(options)

(***************************************************************************)
(* The predicates.                                                         *)
(***************************************************************************)
\* the rule of one string under this._range
StringRule(s, item) ==
    /\ isValidString(item)
    /\ ~(Truthy(s.range) /\ ~Includes(s.range, item))

\* the rule of one number with the bounds tested also when a range is set
NumberRuleRangeAndBounds(s, item) ==
    /\ isValidNumber(item)
    /\ Truthy(s.range) => Includes(s.range, item)
    /\ ~(item.v < s.min) /\ ~(item.v > s.max)

\* the rule of one number under this._range, this._min, this._max
NumberRule(s, item) ==
    /\ isValidNumber(item)
    /\ IF Truthy(s.range)
       THEN Includes(s.range, item)
       ELSE ~(item.v < s.min) /\ ~(item.v > s.max)

\* the closure StringSchema.constructor installs
StringSchemaValidate(s, param) == StringRule(s, param)

\* the closure StringArraySchema.constructor installs
StringArraySchemaValidate(s, param) ==
    /\ isValidArray(param)
    /\ \A i \in 1..Len(param.v) : StringRule(s, param.v[i])

\* the closure NumberSchema.constructor installs
NumberSchemaValidate(s, param) == NumberRule(s, param)

\* the closure of NumberArraySchema testing the first element only
NumberArraySchemaValidateFirstOnly(s, param) ==
    /\ isValidArray(param)
    /\ Len(param.v) > 0 => NumberRule(s, param.v[1])

\* the closure NumberArraySchema.constructor installs
NumberArraySchemaValidate(s, param) ==
    /\ isValidArray(param)
    /\ \A i \in 1..Len(param.v) : NumberRule(s, param.v[i])

\* the closure BooleanSchema.constructor installs
BooleanSchemaValidate(s, param) == isValidBoolean(param)

\* the closure BooleanArraySchema.constructor installs
BooleanArraySchemaValidate(s, param) ==
    /\ isValidArray(param)
    /\ \A i \in 1..Len(param.v) : isValidBoolean(param.v[i])

\* this._validate(param)
ApplyValidate(s, param) ==
    CASE s.validate \in CustomPredicates -> CustomAccepts(s.validate, param)
      [] s.validate = "truthy" -> Truthy(param)
      [] s.validate = "builtin" ->
           CASE s.type = "string" -> StringSchemaValidate(s, param)
             [] s.type = "string[]" -> StringArraySchemaValidate(s, param)
             [] s.type = "number" -> NumberSchemaValidate(s, param)
             [] s.type = "number[]" -> NumberArraySchemaValidate(s, param)
             [] s.type = "boolean" -> BooleanSchemaValidate(s, param)
             [] s.type = "boolean[]" -> BooleanArraySchemaValidate(s, param)

(***************************************************************************)
(* validate.  A result [isValid, result] is [ok |-> ..., value |-> ...];   *)
(* the absent result is the value undefined.                               *)
(***************************************************************************)
Result(ok, value) == [ok |-> ok, value |-> value]

RECURSIVE validate(_, _)

\* Schema.validate with the required test made before the default test
SchemaValidateRequiredFirst(s, param) ==
    IF isNil(param) /\ ~s.isRequired THEN Result(TRUE, Undefined)
    ELSE IF isNil(param) /\ s.hasDefaultValue /\ ~s.isRequired
         THEN Result(TRUE, s.default)
    ELSE IF ApplyValidate(s, param) THEN Result(TRUE, param)
    ELSE Result(FALSE, Undefined)

\* Schema.validate rejecting a nil input of a required schema with no default
\* before the predicate is asked
SchemaValidateRejectsNil(s, param) ==
    IF isNil(param) /\ s.hasDefaultValue THEN Result(TRUE, s.default)
    ELSE IF isNil(param) /\ ~s.isRequired THEN Result(TRUE, Undefined)
    ELSE IF isNil(param) THEN Result(FALSE, Undefined)
    ELSE IF ApplyValidate(s, param) THEN Result(TRUE, param)
    ELSE Result(FALSE, Undefined)

\* Schema.validate
SchemaValidate(s, param) ==
    IF isNil(param) /\ s.hasDefaultValue THEN Result(TRUE, s.default)
    ELSE IF isNil(param) /\ ~s.isRequired THEN Result(TRUE, Undefined)
    ELSE IF ApplyValidate(s, param) THEN Result(TRUE, param)
    ELSE Result(FALSE, Undefined)

\* ObjectSchema.validate returning what it has built when a field fails
ObjectSchemaValidatePartial(s, param) ==
    IF isNil(param) /\ s.hasDefaultValue THEN Result(TRUE, s.default)
    ELSE IF isNil(param) /\ ~s.isRequired THEN Result(TRUE, Undefined)
    ELSE
      LET p == OrElse(param, EmptyObject)
      IN IF s.useValidate
         THEN IF ApplyValidate(s, p)
              THEN Result(TRUE,
                          Obj([key \in EnumKeys(p) |-> EnumGet(p, key)]))
              ELSE Result(FALSE, Undefined)
         ELSE
           LET sub == [key \in DOMAIN s.fieldSchemas |->
                         validate(s.fieldSchemas[key], Get(p, key))]
               good == {key \in DOMAIN sub : sub[key].ok}
           IN Result(good = DOMAIN sub,
                     Obj([key \in good |-> sub[key].value]))

\* ObjectSchema.validate keeping the input's properties that have no field
\* schema
ObjectSchemaValidateUnfiltered(s, param) ==
    IF isNil(param) /\ s.hasDefaultValue THEN Result(TRUE, s.default)
    ELSE IF isNil(param) /\ ~s.isRequired THEN Result(TRUE, Undefined)
    ELSE
      LET p == OrElse(param, EmptyObject)
      IN IF s.useValidate
         THEN IF ApplyValidate(s, p)
              THEN Result(TRUE,
                          Obj([key \in EnumKeys(p) |-> EnumGet(p, key)]))
              ELSE Result(FALSE, Undefined)
         ELSE
           LET sub == [key \in DOMAIN s.fieldSchemas |->
                         validate(s.fieldSchemas[key], Get(p, key))]
           IN IF \A key \in DOMAIN sub : sub[key].ok
              THEN Result(TRUE,
                     Obj([key \in DOMAIN sub \cup EnumKeys(p) |->
                            IF key \in DOMAIN sub THEN sub[key].value
                            ELSE EnumGet(p, key)]))
              ELSE Result(FALSE, Undefined)

\* ObjectSchema.validate giving each field schema the whole input instead
\* of the field's value
ObjectSchemaValidateWholeParam(s, param) ==
    IF isNil(param) /\ s.hasDefaultValue THEN Result(TRUE, s.default)
    ELSE IF isNil(param) /\ ~s.isRequired THEN Result(TRUE, Undefined)
    ELSE
      LET p == OrElse(param, EmptyObject)
      IN IF s.useValidate
         THEN IF ApplyValidate(s, p)
              THEN Result(TRUE,
                          Obj([key \in EnumKeys(p) |-> EnumGet(p, key)]))
              ELSE Result(FALSE, Undefined)
         ELSE
           LET sub == [key \in DOMAIN s.fieldSchemas |->
                         validate(s.fieldSchemas[key], p)]
           IN IF \A key \in DOMAIN sub : sub[key].ok
              THEN Result(TRUE, Obj([key \in DOMAIN sub |-> sub[key].value]))
              ELSE Result(FALSE, Undefined)

\* ObjectSchema.validate leaving out the fields whose schema returned no
\* value
ObjectSchemaValidateOmitsAbsent(s, param) ==
    IF isNil(param) /\ s.hasDefaultValue THEN Result(TRUE, s.default)
    ELSE IF isNil(param) /\ ~s.isRequired THEN Result(TRUE, Undefined)
    ELSE
      LET p == OrElse(param, EmptyObject)
      IN IF s.useValidate
         THEN IF ApplyValidate(s, p)
              THEN Result(TRUE,
                          Obj([key \in EnumKeys(p) |-> EnumGet(p, key)]))
              ELSE Result(FALSE, Undefined)
         ELSE
           LET sub == [key \in DOMAIN s.fieldSchemas |->
                         validate(s.fieldSchemas[key], Get(p, key))]
               present == {key \in DOMAIN sub : ~isNil(sub[key].value)}
           IN IF \A key \in DOMAIN sub : sub[key].ok
              THEN Result(TRUE, Obj([key \in present |-> sub[key].value]))
              ELSE Result(FALSE, Undefined)

\* ObjectSchema.validate
ObjectSchemaValidate(s, param) ==
    IF isNil(param) /\ s.hasDefaultValue THEN Result(TRUE, s.default)
    ELSE IF isNil(param) /\ ~s.isRequired THEN Result(TRUE, Undefined)
    ELSE
      LET p == OrElse(param, EmptyObject)
      IN IF s.useValidate
         THEN IF ApplyValidate(s, p)
              THEN Result(TRUE,
                          Obj([key \in EnumKeys(p) |-> EnumGet(p, key)]))
              ELSE Result(FALSE, Undefined)
         ELSE
           LET sub == [key \in DOMAIN s.fieldSchemas |->
                         validate(s.fieldSchemas[key], Get(p, key))]
           IN IF \A key \in DOMAIN sub : sub[key].ok
              THEN Result(TRUE, Obj([key \in DOMAIN sub |-> sub[key].value]))
              ELSE Result(FALSE, Undefined)

NotNil(x) == ~isNil(x)

\* ObjectArraySchema.validate with a loop that does not stop at a rejected
\* element: the last element decides
ObjectArraySchemaValidateLastDecides(s, param) ==
    IF isNil(param) /\ s.hasDefaultValue THEN Result(TRUE, s.default)
    ELSE IF isNil(param) /\ ~s.isRequired THEN Result(TRUE, Undefined)
    ELSE IF ~isValidArray(param) THEN Result(FALSE, Undefined)
    ELSE IF s.useValidate
         THEN IF ApplyValidate(s, param)
              THEN Result(TRUE, Arr(param.v))
              ELSE Result(FALSE, Undefined)
    ELSE
      LET sub == [i \in 1..Len(param.v) |-> validate(s.schema, param.v[i])]
      IN IF Len(sub) = 0 \/ sub[Len(sub)].ok
         THEN Result(TRUE,
                Arr(SelectSeq([i \in 1..Len(sub) |-> sub[i].value], NotNil)))
         ELSE Result(FALSE, Undefined)

\* ObjectArraySchema.validate pushing every element's result, an absent one
\* too
ObjectArraySchemaValidateKeepsAbsent(s, param) ==
    IF isNil(param) /\ s.hasDefaultValue THEN Result(TRUE, s.default)
    ELSE IF isNil(param) /\ ~s.isRequired THEN Result(TRUE, Undefined)
    ELSE IF ~isValidArray(param) THEN Result(FALSE, Undefined)
    ELSE IF s.useValidate
         THEN IF ApplyValidate(s, param)
              THEN Result(TRUE, Arr(param.v))
              ELSE Result(FALSE, Undefined)
    ELSE
      LET sub == [i \in 1..Len(param.v) |-> validate(s.schema, param.v[i])]
      IN IF \A i \in 1..Len(sub) : sub[i].ok
         THEN Result(TRUE, Arr([i \in 1..Len(sub) |-> sub[i].value]))
         ELSE Result(FALSE, Undefined)

\* ObjectArraySchema.validate
ObjectArraySchemaValidate(s, param) ==
    IF isNil(param) /\ s.hasDefaultValue THEN Result(TRUE, s.default)
    ELSE IF isNil(param) /\ ~s.isRequired THEN Result(TRUE, Undefined)
    ELSE IF ~isValidArray(param) THEN Result(FALSE, Undefined)
    ELSE IF s.useValidate
         THEN IF ApplyValidate(s, param)
              THEN Result(TRUE, Arr(param.v))
              ELSE Result(FALSE, Undefined)
    ELSE
      LET sub == [i \in 1..Len(param.v) |-> validate(s.schema, param.v[i])]
      IN IF \A i \in 1..Len(sub) : sub[i].ok
         THEN Result(TRUE,
                Arr(SelectSeq([i \in 1..Len(sub) |-> sub[i].value], NotNil)))
         ELSE Result(FALSE, Undefined)

\* the inner loop of ArraySchema.validate: the alternatives that take item
Matches(s, item) ==
    {j \in 1..Len(s.schemas) :
        LET r == validate(s.schemas[j], item) IN r.ok /\ Truthy(r.value)}

Min(S) == CHOOSE x \in S : \A y \in S : x <= y

\* ArraySchema.validate
ArraySchemaValidate(s, param) ==
    IF isNil(param) /\ s.hasDefaultValue THEN Result(TRUE, s.default)
    ELSE IF isNil(param) /\ ~s.isRequired THEN Result(TRUE, Undefined)
    ELSE IF ~isValidArray(param) THEN Result(FALSE, Undefined)
    ELSE IF s.useValidate
         THEN IF ApplyValidate(s, param)
              THEN Result(TRUE, Arr(param.v))
              ELSE Result(FALSE, Undefined)
    ELSE
      IF \A i \in 1..Len(param.v) : Matches(s, param.v[i]) # {}
      THEN Result(TRUE,
             Arr([i \in 1..Len(param.v) |->
                    validate(s.schemas[Min(Matches(s, param.v[i]))],
                             param.v[i]).value]))
      ELSE Result(FALSE, Undefined)

\* schema.validate(param), dispatched on the class of the instance
validate(s, param) ==
    CASE s.type = "object" -> ObjectSchemaValidate(s, param)
      [] s.type = "object[]" -> ObjectArraySchemaValidate(s, param)
      [] s.type = "array" -> ArraySchemaValidate(s, param)
      [] OTHER -> SchemaValidate(s, param)

\* validate recording in this that a nil input was seen
ValidateThisMarksDefault(s, param) ==
    IF isNil(param) THEN [s EXCEPT !.hasDefaultValue = TRUE] ELSE s

\* the instance after validate(param): validate assigns to no field of this
\* and to no field of a child schema
ValidateThis(s, param) == s

\* the caller's value after validate(param):  param = param || ...  rebinds
\* the parameter, and results are built in fresh objects and arrays
ValidateParam(s, param) == param

(***************************************************************************)
(* The fluent setters.                                                     *)
(***************************************************************************)
\* Schema.setDefault
setDefault(s, defaultValue) ==
    [s EXCEPT !.hasDefaultValue = TRUE, !.default = defaultValue]

\* Schema.setValidate; ObjectSchema, ObjectArraySchema and ArraySchema
\* override it to set useValidate too
setValidate(s, p) ==
    IF s.type \in {"object", "object[]", "array"}
    THEN [s EXCEPT !.useValidate = TRUE, !.validate = p]
    ELSE [s EXCEPT !.validate = p]

\* Schema.setRequired
setRequired(s, required) ==
    IF isValidBoolean(required)
    THEN [s EXCEPT !.isRequired = required.v]
    ELSE s

\* StringSchema.setRange, StringArraySchema.setRange, NumberSchema.setRange,
\* NumberArraySchema.setRange
setRange(s, range) == [s EXCEPT !.range = range]

\* setMin dropping the range
setMinClearsRange(s, min) == [s EXCEPT !.min = min, !.range = Undefined]

\* NumberSchema.setMin, NumberArraySchema.setMin
setMin(s, min) == [s EXCEPT !.min = min]

\* NumberSchema.setMax, NumberArraySchema.setMax
setMax(s, max) == [s EXCEPT !.max = max]

\* setFieldSchemas going back to the validation by fields
setFieldSchemasClearsValidate(s, fieldSchemas) ==
    [s EXCEPT !.fieldSchemas = fieldSchemas, !.useValidate = FALSE]

\* ObjectSchema.setFieldSchemas
setFieldSchemas(s, fieldSchemas) == [s EXCEPT !.fieldSchemas = fieldSchemas]

\* Object.assign with the target's own entry kept on a name collision
ObjectAssignKeepsTarget(target, source) ==
    [key \in DOMAIN target \cup DOMAIN source |->
       IF key \in DOMAIN target THEN target[key] ELSE source[key]]

\* Object.assign(target, source): the properties of target afterwards
ObjectAssign(target, source) ==
    [key \in DOMAIN target \cup DOMAIN source |->
       IF key \in DOMAIN source THEN source[key] ELSE target[key]]

\* ObjectSchema.merge, for an instance that holds its fields by value
merge(s, os) ==
    [s EXCEPT !.fieldSchemas = ObjectAssign(@, os.fieldSchemas)]

\* ObjectArraySchema.setSchema
setSchema(s, itemSchema) == [s EXCEPT !.schema = itemSchema]

\* ArraySchema.setSchemas
setSchemas(s, schemas) == [s EXCEPT !.schemas = schemas]

(***************************************************************************)
(* The inputs of the model.                                                *)
(***************************************************************************)
Types == {"string", "string[]", "number", "number[]", "boolean", "boolean[]",
          "object", "object[]", "array"}

StringTypes == {"string", "string[]"}
NumberTypes == {"number", "number[]"}

Numbers == -1..MaxNum
Strings == {"", "a"}

ScalarValues ==
    {Undefined, Null} \cup {Num(n) : n \in Numbers}
      \cup {Str(x) : x \in Strings} \cup {Bool(b) : b \in BOOLEAN}

\* the values of the properties of an object given to validate
FieldValues == {Null, Num(1), Str("a")}

ObjectValues ==
    {Obj(f) : f \in UNION {[S -> FieldValues] : S \in SUBSET Keys}}

\* the elements of an array given to validate
ElemValues == {Null, Num(0), Num(1), Str(""), Bool(FALSE),
               Obj([key \in {"foo"} |-> Str("a")])}

ArrayValues ==
    {Arr(q) : q \in UNION {[1..n -> ElemValues] : n \in 0..MaxLen}}

\* what validate is called with
Values == ScalarValues \cup ObjectValues \cup ArrayValues

\* the value given to setDefault and to the defaultValue option
DefaultChoice(type) ==
    CASE type = "string" -> Str("a")
      [] type = "string[]" -> Arr(<<Str("a")>>)
      [] type = "number" -> Num(1)
      [] type = "number[]" -> Arr(<<Num(1)>>)
      [] type = "boolean" -> Bool(TRUE)
      [] type = "boolean[]" -> Arr(<<Bool(TRUE)>>)
      [] type = "object" -> Obj([key \in {"bar"} |-> Num(1)])
      [] type = "object[]" -> Arr(<<EmptyObject>>)
      [] type = "array" -> Arr(<<Num(1)>>)

StringRange == Arr(<<Str("a")>>)
NumberRange == Arr(<<Num(0), Num(1), Num(2)>>)

\* the ranges given to setRange
RangeChoices(type) ==
    IF type \in StringTypes
    THEN {StringRange, Arr(<<Str("")>>)}
    ELSE {NumberRange, Arr(<<Num(-1)>>)}
MinChoices == {0, 5}
MaxChoices == {1}

\* the schemas given as the fields of an ObjectSchema
FieldSchemaChoices ==
    { string(NoOptions),
      number(NoOptions),
      string([required |-> Bool(FALSE)]),
      boolean([defaultValue |-> Bool(TRUE)]),
      number([defaultValue |-> Num(-1)]),
      object([fieldSchemas |-> [key \in {"foo"} |-> string(NoOptions)]]) }

FieldSchemasChoices ==
    UNION {[S -> FieldSchemaChoices] : S \in SUBSET Keys}

FooString == [key \in {"foo"} |-> string(NoOptions)]

\* the schemas given as the item schema of an ObjectArraySchema
ItemSchemaChoices ==
    { object(NoOptions),
      object([fieldSchemas |-> FooString]),
      object([fieldSchemas |-> FooString, required |-> Bool(FALSE)]),
      object([fieldSchemas |-> FooString,
              defaultValue |-> Obj([key \in {"foo"} |-> Str("")])]) }

\* the alternatives given to an ArraySchema
SchemasChoices ==
    { <<number(NoOptions)>>,
      <<string(NoOptions), boolean(NoOptions)>>,
      <<number([range |-> Arr(<<Num(1), Num(2), Num(3)>>)]),
        object([fieldSchemas |-> FooString])>>,
      <<object(NoOptions), number(NoOptions)>>,
      <<string([required |-> Bool(FALSE)]), number(NoOptions)>> }

\* the ObjectSchemas given to merge
MergeChoices ==
    { object(NoOptions),
      object([fieldSchemas |-> FooString]),
      object([fieldSchemas |-> [key \in Keys |-> number(NoOptions)]]) }

\* the options given to a factory
OptionChoices(type) ==
    {NoOptions,
     [required |-> Bool(FALSE)],
     [defaultValue |-> DefaultChoice(type)],
     [validate |-> "always"],
     [required |-> Undefined]}
    \cup (IF type \in StringTypes THEN {[range |-> StringRange]} ELSE {})
    \cup (IF type \in NumberTypes
          THEN {[range |-> NumberRange, min |-> 5], [min |-> 5, max |-> 1]}
          ELSE {})
    \cup (IF type = "object"
          THEN {[fieldSchemas |-> FooString, validate |-> "always"]}
          ELSE {})
    \cup (IF type = "object[]"
          THEN {[schema |-> object([fieldSchemas |-> FooString])]}
          ELSE {})
    \cup (IF type = "array"
          THEN {[schemas |-> <<number(NoOptions)>>]}
          ELSE {})

\* Schema.string(options), ..., Schema.array(options)
Factory(type, options) ==
    CASE type = "string" -> string(options)
      [] type = "string[]" -> stringArray(options)
      [] type = "number" -> number(options)
      [] type = "number[]" -> numberArray(options)
      [] type = "boolean" -> boolean(options)
      [] type = "boolean[]" -> booleanArray(options)
      [] type = "object" -> object(options)
      [] type = "object[]" -> objectArray(options)
      [] type = "array" -> array(options)

(***************************************************************************)
(* The state machine: a schema is built by a factory, changed by setters   *)
(* and used by validate, in any order.  call is the last validate call     *)
(* since the schema was last changed.                                      *)
(***************************************************************************)
NoCall == [made |-> FALSE, param |-> Undefined, after |-> Undefined,
           result |-> Result(FALSE, Undefined)]

\* the constraints a caller has given: the option passed to the factory,
\* then the argument of the last call of the setter; undefined ("unset" for
\* the predicate) when neither was given
Given(options) ==
    [range |-> IF Has(options, "range") THEN options.range ELSE Undefined,
     min |-> IF Has(options, "min") THEN Num(options.min) ELSE Undefined,
     max |-> IF Has(options, "max") THEN Num(options.max) ELSE Undefined,
     validate |-> IF Has(options, "validate")
                  THEN options.validate ELSE "unset"]

\* no object, no instance, no call yet
NoHeap ==
    /\ mappings = <<>>
    /\ instances = <<>>
    /\ last = [op |-> "none"]

Init ==
    /\ \E type \in Types : \E options \in OptionChoices(type) :
          /\ schema = Factory(type, options)
          /\ given = Given(options)
    /\ call = NoCall
    /\ NoHeap

SetDefault ==
    /\ schema' = setDefault(schema, DefaultChoice(schema.type))
    /\ call' = NoCall
    /\ UNCHANGED <<given, heap>>

SetValidate ==
    /\ \E p \in CustomPredicates :
          /\ schema' = setValidate(schema, p)
          /\ given' = [given EXCEPT !.validate = p]
    /\ call' = NoCall
    /\ UNCHANGED heap

SetRequired ==
    /\ \E required \in {Bool(TRUE), Bool(FALSE), Undefined} :
          schema' = setRequired(schema, required)
    /\ call' = NoCall
    /\ UNCHANGED <<given, heap>>

SetRange ==
    /\ schema.type \in StringTypes \cup NumberTypes
    /\ \E range \in RangeChoices(schema.type) :
          /\ schema' = setRange(schema, range)
          /\ given' = [given EXCEPT !.range = range]
    /\ call' = NoCall
    /\ UNCHANGED heap

SetMin ==
    /\ schema.type \in NumberTypes
    /\ \E min \in MinChoices :
          /\ schema' = setMin(schema, min)
          /\ given' = [given EXCEPT !.min = Num(min)]
    /\ call' = NoCall
    /\ UNCHANGED heap

SetMax ==
    /\ schema.type \in NumberTypes
    /\ \E max \in MaxChoices :
          /\ schema' = setMax(schema, max)
          /\ given' = [given EXCEPT !.max = Num(max)]
    /\ call' = NoCall
    /\ UNCHANGED heap

SetFieldSchemas ==
    /\ schema.type = "object"
    /\ \E fieldSchemas \in FieldSchemasChoices :
          schema' = setFieldSchemas(schema, fieldSchemas)
    /\ call' = NoCall
    /\ UNCHANGED <<given, heap>>

SetSchema ==
    /\ schema.type = "object[]"
    /\ \E itemSchema \in ItemSchemaChoices :
          schema' = setSchema(schema, itemSchema)
    /\ call' = NoCall
    /\ UNCHANGED <<given, heap>>

SetSchemas ==
    /\ schema.type = "array"
    /\ \E schemas \in SchemasChoices : schema' = setSchemas(schema, schemas)
    /\ call' = NoCall
    /\ UNCHANGED <<given, heap>>

Merge ==
    /\ schema.type = "object"
    /\ \E os \in MergeChoices : schema' = merge(schema, os)
    /\ call' = NoCall
    /\ UNCHANGED <<given, heap>>

\* A call made right after another one is the same call again: validate
\* changes neither the schema nor its input (ValidateThis, ValidateParam), so
\* a call on another input is taken from the state the schema was in before.
Validate ==
    \E param \in IF call.made THEN {call.param} ELSE Values :
       /\ call' = [made |-> TRUE, param |-> param,
                   after |-> ValidateParam(schema, param),
                   result |-> validate(schema, param)]
       /\ schema' = ValidateThis(schema, param)
       /\ UNCHANGED <<given, heap>>

Next ==
    \/ SetDefault
    \/ SetValidate
    \/ SetRequired
    \/ SetRange
    \/ SetMin
    \/ SetMax
    \/ SetFieldSchemas
    \/ SetSchema
    \/ SetSchemas
    \/ Merge
    \/ Validate

Spec == Init /\ [][Next]_vars

(***************************************************************************)
(* MergeSpec: ObjectSchema instances that hold their field schemas by      *)
(* reference.  mappings[r] is the object with reference r, an instance's   *)
(* fieldSchemas is a reference, and `this._schema = fieldSchemas` copies   *)
(* the reference, not the object.                                          *)
(***************************************************************************)
\* the objects a caller writes as field schemas
MappingLiterals ==
    { [key \in {"foo"} |-> string(NoOptions)],
      [key \in {"bar"} |-> number(NoOptions)],
      [key \in Keys |-> IF key = "foo" THEN number(NoOptions)
                                        ELSE string(NoOptions)] }

\* this._schema of instance c, dereferenced
FieldSchemasOf(c) == mappings[instances[c].fieldSchemas]

MergeInit ==
    /\ schema = object(NoOptions)
    /\ given = Given(NoOptions)
    /\ call = NoCall
    /\ NoHeap

\* the caller evaluates an object literal { foo: Schema.string(), ... }
Literal ==
    /\ Len(mappings) < MaxMappings
    /\ \E m \in MappingLiterals : mappings' = Append(mappings, m)
    /\ last' = [op |-> "literal"]
    /\ UNCHANGED <<instances, one>>

\* Schema.object(): the constructor makes the instance's own {}
NewObject ==
    /\ Len(mappings) < MaxMappings /\ Len(instances) < MaxInstances
    /\ mappings' = Append(mappings, [key \in {} |-> Undefined])
    /\ instances' =
          Append(instances, object([fieldSchemas |-> Len(mappings) + 1]))
    /\ last' = [op |-> "object"]
    /\ UNCHANGED one

\* Schema.object({ fieldSchemas }): the instance holds the caller's object
NewObjectOf ==
    /\ Len(instances) < MaxInstances
    /\ \E r \in 1..Len(mappings) :
          instances' = Append(instances, object([fieldSchemas |-> r]))
    /\ last' = [op |-> "object"]
    /\ UNCHANGED <<mappings, one>>

\* a.setFieldSchemas(fieldSchemas)
SetFieldSchemasOf ==
    /\ \E a \in 1..Len(instances) : \E r \in 1..Len(mappings) :
          instances' = [instances EXCEPT ![a] = setFieldSchemas(@, r)]
    /\ last' = [op |-> "setFieldSchemas"]
    /\ UNCHANGED <<mappings, one>>

\* a.merge(b): Object.assign writes into the object a holds.  last records
\* the call, what it returned, and whether a name of a was also in b with
\* another schema (collided) and whether a had a name that b has not (kept)
MergeOf ==
    /\ \E a, b \in 1..Len(instances) :
          /\ mappings' =
                [mappings EXCEPT ![instances[a].fieldSchemas] =
                   ObjectAssign(@, FieldSchemasOf(b))]
          /\ last' =
                [op |-> "merge", a |-> a, b |-> b, returned |-> a,
                 collided |->
                   \E name \in DOMAIN FieldSchemasOf(a)
                                  \cap DOMAIN FieldSchemasOf(b) :
                      FieldSchemasOf(a)[name] # FieldSchemasOf(b)[name],
                 kept |-> DOMAIN FieldSchemasOf(a)
                            \ DOMAIN FieldSchemasOf(b) # {}]
    /\ UNCHANGED <<instances, one>>

MergeNext ==
    \/ Literal
    \/ NewObject
    \/ NewObjectOf
    \/ SetFieldSchemasOf
    \/ MergeOf

MergeSpec == MergeInit /\ [][MergeNext]_vars

(***************************************************************************)
(* The claims.                                                             *)
(***************************************************************************)
\* no predicate was installed by the caller
NoCustom(s) == s.validate \notin CustomPredicates

\* C1: validate(null) and validate(undefined) return (true, defaultValue)
\* when the schema has a default, whatever required and the predicate are,
\* and (true, absent) when it has no default and is not required.
C1_NilShortCircuit ==
    (call.made /\ isNil(call.param)) =>
       /\ schema.hasDefaultValue =>
             call.result = Result(TRUE, schema.default)
       /\ (~schema.hasDefaultValue /\ ~schema.isRequired) =>
             call.result = Result(TRUE, Undefined)

\* C1's case: a required schema with a default and a predicate that rejects
\* everything was given null or undefined
C1_Witness ==
    /\ call.made /\ isNil(call.param)
    /\ schema.hasDefaultValue /\ schema.isRequired
    /\ schema.validate = "never"
    /\ call.result.ok

\* C2: a required schema with no default and no custom predicate rejects
\* null and undefined with (false, absent), ObjectSchema included.
C2_RequiredNilRejected ==
    (/\ call.made /\ isNil(call.param)
     /\ schema.isRequired /\ ~schema.hasDefaultValue /\ NoCustom(schema))
       => call.result = Result(FALSE, Undefined)

\* C3: validate returns (true, value), (true, absent) or (false, absent): a
\* rejected result carries no value.
C3_ResultProtocol ==
    call.made =>
       /\ call.result.ok \in BOOLEAN
       /\ ~call.result.ok => call.result.value = Undefined

\* C3's case: an ObjectSchema rejected an input after one of its fields had
\* passed
C3_Witness ==
    /\ call.made /\ ~call.result.ok
    /\ schema.type = "object" /\ ~schema.useValidate
    /\ \E key \in DOMAIN schema.fieldSchemas :
          validate(schema.fieldSchemas[key],
                   Get(OrElse(call.param, EmptyObject), key)).ok

\* an input has no property key
Missing(param, key) == ~(param.k = "object" /\ key \in DOMAIN param.v)

\* the result object has exactly the keys of fieldSchemas, and a field with
\* a default that the input lacks has its default value
FieldFiltering ==
    LET out == call.result.value.v
        fs == schema.fieldSchemas
    IN /\ DOMAIN out = DOMAIN fs
       /\ \A key \in DOMAIN fs :
             (fs[key].hasDefaultValue /\ Missing(call.param, key))
                => out[key] = fs[key].default

\* C4 as stated: for an ObjectSchema with no custom predicate, whenever
\* validate is accepted with an object result, the result's keys are exactly
\* the keys of fieldSchemas (input keys with no field schema are dropped) and
\* a defaulted field missing from the input appears with its default.
C4_AsStated ==
    (/\ call.made /\ schema.type = "object" /\ ~schema.useValidate
     /\ call.result.ok /\ call.result.value.k = "object")
       => FieldFiltering

\* C4 amended: the same for every input that is not replaced by the schema's
\* own default (a non-nil input, or a nil input to a schema with no default).
C4_FieldFiltering ==
    (/\ call.made /\ schema.type = "object" /\ ~schema.useValidate
     /\ ~(isNil(call.param) /\ schema.hasDefaultValue)
     /\ call.result.ok /\ call.result.value.k = "object")
       => FieldFiltering

\* C4's case: an accepted object input with a property that has no field
\* schema, and without a property whose field schema has a default
C4_Witness ==
    /\ call.made /\ schema.type = "object" /\ ~schema.useValidate
    /\ call.result.ok /\ call.param.k = "object"
    /\ \E key \in DOMAIN call.param.v : key \notin DOMAIN schema.fieldSchemas
    /\ \E key \in DOMAIN schema.fieldSchemas :
          /\ schema.fieldSchemas[key].hasDefaultValue
          /\ key \notin DOMAIN call.param.v

\* C5: an ObjectSchema with no custom predicate rejects every string, number
\* and boolean input with (false, absent), whatever its fieldSchemas are.
C5_ObjectRejectsNonMapping ==
    (/\ call.made /\ schema.type = "object" /\ ~schema.useValidate
     /\ call.param.k \in {"string", "number", "boolean"})
       => call.result = Result(FALSE, Undefined)

\* C6: for an ArraySchema with no custom predicate and an array input, the
\* call is accepted iff every element is accepted by some alternative; then
\* output element i is the output of the first alternative that accepts input
\* element i; otherwise the result is (false, absent).
C6_FirstMatchUnion ==
    (/\ call.made /\ schema.type = "array" /\ ~schema.useValidate
     /\ isValidArray(call.param))
       => LET alts == schema.schemas
              q == call.param.v
              Accepting(item) ==
                  {j \in 1..Len(alts) : validate(alts[j], item).ok}
              all == \A i \in 1..Len(q) : Accepting(q[i]) # {}
          IN /\ call.result.ok <=> all
             /\ all => call.result.value =
                         Arr([i \in 1..Len(q) |->
                                validate(alts[Min(Accepting(q[i]))],
                                         q[i]).value])
             /\ ~all => call.result = Result(FALSE, Undefined)

\* accepted iff the input is an array whose elements the item schema all
\* accepts, and a rejection is (false, absent)
ArrayOfAcceptedItems ==
    /\ call.result.ok <=>
          /\ isValidArray(call.param)
          /\ \A i \in 1..Len(call.param.v) :
                validate(schema.schema, call.param.v[i]).ok
    /\ ~call.result.ok => call.result = Result(FALSE, Undefined)

\* C7 as stated: for an ObjectArraySchema with no custom predicate, validate
\* is accepted iff the input is an array and the item schema accepts every
\* element; one rejected element rejects the whole array.
C7_AsStated ==
    (call.made /\ schema.type = "object[]" /\ ~schema.useValidate)
       => ArrayOfAcceptedItems

\* C7 amended: the same for every input the nil short-circuit does not
\* answer (a non-nil input, or a nil input to a required schema with no
\* default).
C7_ObjectArrayAccepts ==
    (/\ call.made /\ schema.type = "object[]" /\ ~schema.useValidate
     /\ ~(isNil(call.param)
          /\ (schema.hasDefaultValue \/ ~schema.isRequired)))
       => ArrayOfAcceptedItems

\* C7's case: the first element is rejected by the item schema, a later one
\* would pass, and the array is rejected
C7_Witness ==
    /\ call.made /\ schema.type = "object[]" /\ ~schema.useValidate
    /\ isValidArray(call.param) /\ Len(call.param.v) >= 2
    /\ ~validate(schema.schema, call.param.v[1]).ok
    /\ validate(schema.schema, call.param.v[Len(call.param.v)]).ok
    /\ call.result = Result(FALSE, Undefined)

\* C8: with the built-in predicate a non-nil value v is accepted by a
\* NumberSchema iff v is a number and, when a range is set, v is in the range
\* (min and max are not looked at), and when none is set, min <= v <= max;
\* the accepted result is v.
C8_NumberPredicate ==
    (/\ call.made /\ schema.type = "number" /\ schema.validate = "builtin"
     /\ ~isNil(call.param))
       => LET v == call.param
              rule == IF schema.range # Undefined
                      THEN \E i \in 1..Len(schema.range.v) :
                              schema.range.v[i] = v
                      ELSE schema.min <= v.v /\ v.v <= schema.max
          IN /\ call.result.ok <=> (v.k = "number" /\ rule)
             /\ call.result.ok => call.result.value = v

\* C8's case: range [0, 1, 2] with min = 5 accepts 0
C8_Witness ==
    /\ call.made /\ schema.type = "number" /\ schema.validate = "builtin"
    /\ schema.range = NumberRange /\ schema.min = 5
    /\ call.param = Num(0)
    /\ call.result = Result(TRUE, Num(0))

\* validating the accepted result again gives the same accepted result
Idempotent ==
    validate(schema, call.result.value) = Result(TRUE, call.result.value)

\* C9 as stated: for every scalar schema and every object schema without a
\* custom predicate, and every input v, validate(v) = (true, s) implies
\* validate(s) = (true, s), also when s is a default produced for a nil
\* input.
C9_AsStated ==
    (/\ call.made /\ call.result.ok
     /\ \/ schema.type \in {"string", "number", "boolean"} /\ NoCustom(schema)
        \/ schema.type = "object" /\ ~schema.useValidate)
       => Idempotent

RECURSIVE ScalarOrObjectTree(_)
\* a scalar schema with its built-in predicate, or an object schema with no
\* custom predicate whose field schemas are such schemas
ScalarOrObjectTree(s) ==
    \/ s.type \in {"string", "number", "boolean"} /\ NoCustom(s)
    \/ /\ s.type = "object" /\ ~s.useValidate
       /\ \A key \in DOMAIN s.fieldSchemas :
             ScalarOrObjectTree(s.fieldSchemas[key])

RECURSIVE DefaultsAccepted(_)
\* every default of the schema and of its field schemas is accepted
\* unchanged by the schema it is the default of
DefaultsAccepted(s) ==
    /\ s.hasDefaultValue => validate(s, s.default) = Result(TRUE, s.default)
    /\ s.type = "object" =>
          \A key \in DOMAIN s.fieldSchemas :
             DefaultsAccepted(s.fieldSchemas[key])

\* C9 amended: idempotence holds for a scalar schema without a custom
\* predicate and for an object schema without a custom predicate whose
\* fields are such schemas, provided every default set on the schema or on
\* one of its fields is itself accepted unchanged by the schema it is set on.
C9_Idempotence ==
    (/\ call.made /\ call.result.ok
     /\ ScalarOrObjectTree(schema) /\ DefaultsAccepted(schema))
       => Idempotent

\* C9's case: an object schema produced a field's default for an input that
\* lacks the field
C9_Witness ==
    /\ call.made /\ call.result.ok
    /\ schema.type = "object" /\ ~schema.useValidate
    /\ DefaultsAccepted(schema)
    /\ ~isNil(call.param)
    /\ \E key \in DOMAIN schema.fieldSchemas :
          /\ schema.fieldSchemas[key].hasDefaultValue
          /\ Missing(call.param, key)
          /\ call.result.value.v[key] = schema.fieldSchemas[key].default

RequiredNilCustom ==
    /\ call.made /\ isNil(call.param)
    /\ schema.isRequired /\ ~schema.hasDefaultValue
    /\ schema.validate \in CustomPredicates

\* C11 as stated: for every schema variant with required=true, no default and
\* a custom predicate p, validate(nil) is accepted iff p accepts the nil
\* input, ObjectArraySchema and ArraySchema included.
C11_AsStated ==
    RequiredNilCustom =>
       (call.result.ok <=> CustomAccepts(schema.validate, call.param))

\* C11 amended: for the scalar and scalar-array variants validate(nil) is
\* accepted iff p accepts the nil input, and the accepted result is that
\* input; an ObjectSchema asks p about an empty object instead and answers
\* with an empty object; an ObjectArraySchema and an ArraySchema reject nil
\* with (false, absent) whatever p is.
C11_RequiredNilReachesPredicate ==
    RequiredNilCustom =>
       CASE schema.type \in {"object[]", "array"} ->
              call.result = Result(FALSE, Undefined)
         [] schema.type = "object" ->
              /\ call.result.ok <=> CustomAccepts(schema.validate, EmptyObject)
              /\ call.result.ok => call.result.value = EmptyObject
         [] OTHER ->
              /\ call.result.ok <=>
                    CustomAccepts(schema.validate, call.param)
              /\ call.result.ok => call.result.value = call.param
              /\ ~call.result.ok => call.result.value = Undefined

\* C11's case: a required scalar schema with no default and a predicate that
\* accepts nil and not everything was given nil, and accepted it
C11_Witness ==
    /\ RequiredNilCustom
    /\ schema.type \in {"string", "number", "boolean"}
    /\ schema.validate = "picky"
    /\ call.result = Result(TRUE, call.param)

\* an ObjectSchema with no custom predicate accepted an input that the nil
\* short-circuit did not answer: the result was built field by field
BuiltFromFields ==
    /\ call.made /\ schema.type = "object" /\ ~schema.useValidate
    /\ ~(isNil(call.param)
         /\ (schema.hasDefaultValue \/ ~schema.isRequired))
    /\ call.result.ok

\* what the schema of field key returned for the input's property key
Child(key) ==
    validate(schema.fieldSchemas[key],
             Get(OrElse(call.param, EmptyObject), key))

\* C12 as stated: for an ObjectSchema with no custom predicate, on success
\* the output has an entry for a field only if that field's schema returned a
\* value that is not absent: an optional field whose input is nil is omitted.
C12_AsStated ==
    BuiltFromFields =>
       \A key \in DOMAIN call.result.value.v : ~isNil(Child(key).value)

\* C12 amended: on success the output has an entry for every field of
\* fieldSchemas, holding what the field's schema returned; an optional field
\* whose input is nil is present in the output with the value undefined.
C12_AbsentFieldKept ==
    BuiltFromFields =>
       /\ DOMAIN call.result.value.v = DOMAIN schema.fieldSchemas
       /\ \A key \in DOMAIN schema.fieldSchemas :
             /\ call.result.value.v[key] = Child(key).value
             /\ (/\ ~schema.fieldSchemas[key].isRequired
                 /\ ~schema.fieldSchemas[key].hasDefaultValue
                 /\ isNil(Get(OrElse(call.param, EmptyObject), key)))
                   => call.result.value.v[key] = Undefined

\* C12's case: an accepted object whose optional field is nil in the input,
\* next to a field that has a value
C12_Witness ==
    /\ BuiltFromFields
    /\ \E key \in DOMAIN schema.fieldSchemas :
          /\ ~schema.fieldSchemas[key].isRequired
          /\ ~schema.fieldSchemas[key].hasDefaultValue
          /\ isNil(Get(call.param, key))
          /\ call.result.value.v[key] = Undefined
    /\ \E key \in DOMAIN schema.fieldSchemas :
          ~isNil(call.result.value.v[key])

\* C13: once a custom predicate p is installed on an ObjectSchema it stays
\* installed through every later call, setFieldSchemas and merge included,
\* and for every object input m validate(m) is accepted iff p(m), the
\* accepted output has exactly the keys and values of m, and a rejection is
\* (false, absent): the field schemas play no part.
C13_CustomPredicateMode ==
    [][(schema.type = "object" /\ schema.useValidate) =>
         /\ schema'.useValidate
         /\ schema'.validate \in CustomPredicates
         /\ (call'.made /\ call'.param.k = "object") =>
               LET m == call'.param
               IN /\ call'.result.ok <=> CustomAccepts(schema'.validate, m)
                  /\ call'.result.ok =>
                        /\ call'.result.value.k = "object"
                        /\ DOMAIN call'.result.value.v = DOMAIN m.v
                        /\ \A key \in DOMAIN m.v :
                              call'.result.value.v[key] = m.v[key]
                  /\ ~call'.result.ok =>
                        call'.result = Result(FALSE, Undefined)]_vars

\* C13's case: a custom predicate accepted an object whose property foo the
\* schema of field foo rejects and whose property bar has no field schema
C13_Witness ==
    /\ call.made /\ schema.type = "object" /\ schema.useValidate
    /\ schema.validate = "picky"
    /\ call.param.k = "object" /\ DOMAIN call.param.v = Keys
    /\ DOMAIN schema.fieldSchemas = {"foo"}
    /\ ~validate(schema.fieldSchemas["foo"], call.param.v["foo"]).ok
    /\ call.result = Result(TRUE, call.param)

\* an ObjectArraySchema with no custom predicate accepted an array
ItemsAccepted ==
    /\ call.made /\ schema.type = "object[]" /\ ~schema.useValidate
    /\ isValidArray(call.param) /\ call.result.ok

\* what the item schema returns for each element of the input
Sanitized ==
    [i \in 1..Len(call.param.v) |->
       validate(schema.schema, call.param.v[i]).value]

\* C14 as stated: on acceptance with no custom predicate the output of an
\* ObjectArraySchema has the length of the input and output[i] is the item
\* schema's output for input[i], also when the item schema is optional or has
\* a default and an input element is nil.
C14_AsStated ==
    ItemsAccepted =>
       /\ call.result.value.k = "array"
       /\ Len(call.result.value.v) = Len(call.param.v)
       /\ \A i \in 1..Len(call.param.v) :
             call.result.value.v[i] = Sanitized[i]

\* C14 amended: the output holds, in input order, the item schema's outputs
\* that are not absent: an element for which the item schema returns no
\* value (a nil element of an optional item schema) has no entry in the
\* output, and the output has the length of the input when there is no such
\* element.
C14_ObjectArrayOutput ==
    ItemsAccepted =>
       LET out == call.result.value.v
           kept == {i \in 1..Len(call.param.v) : ~isNil(Sanitized[i])}
       IN /\ call.result.value.k = "array"
          /\ \E f \in [1..Len(out) -> 1..Len(call.param.v)] :
                /\ \A j, k \in 1..Len(out) : j < k => f[j] < f[k]
                /\ {f[j] : j \in 1..Len(out)} = kept
                /\ \A j \in 1..Len(out) : out[j] = Sanitized[f[j]]

\* C14's case: an optional item schema, a nil element before an object
\* element: the output is the object's sanitization alone
C14_Witness ==
    /\ ItemsAccepted
    /\ ~schema.schema.isRequired /\ ~schema.schema.hasDefaultValue
    /\ Len(call.param.v) = 2
    /\ isNil(call.param.v[1]) /\ call.param.v[2].k = "object"
    /\ call.result.value.v = <<Sanitized[2]>>

\* the rule of one string or number under the constraints the caller gave
\* last: a string in the range if one was given; a number in the range if one
\* was given, else between min (0 if none was given) and max (if one was
\* given)
GivenRule(item) ==
    IF schema.type \in StringTypes
    THEN /\ item.k = "string"
         /\ given.range # Undefined =>
               \E i \in 1..Len(given.range.v) : given.range.v[i] = item
    ELSE /\ item.k = "number"
         /\ IF given.range # Undefined
            THEN \E i \in 1..Len(given.range.v) : given.range.v[i] = item
            ELSE /\ item.v >= (IF given.min = Undefined THEN 0
                                ELSE given.min.v)
                 /\ given.max # Undefined => item.v <= given.max.v

\* C16: for a String or Number schema or its array form, validate of a
\* non-nil value depends only on the last value given to each of setRange,
\* setMin, setMax (or to the option, when the setter was not called): with no
\* custom predicate it is accepted iff it passes the rule under these last
\* values, and once a predicate p was given it is accepted iff p accepts it,
\* whatever range, min and max were given before or after.
C16_LastGivenDecides ==
    (/\ call.made /\ schema.type \in StringTypes \cup NumberTypes
     /\ ~isNil(call.param))
       => LET v == call.param
              expected ==
                IF given.validate # "unset"
                THEN CustomAccepts(given.validate, v)
                ELSE IF schema.type \in {"string", "number"}
                     THEN GivenRule(v)
                     ELSE /\ v.k = "array"
                          /\ \A i \in 1..Len(v.v) : GivenRule(v.v[i])
          IN /\ call.result.ok <=> expected
             /\ call.result.ok => call.result.value = v
             /\ ~call.result.ok => call.result.value = Undefined

\* C16's case: a number schema built with min = 5 and max = 1, which no
\* number passes, then given the range [-1] by setRange, accepts -1
C16_Witness ==
    /\ call.made /\ schema.type = "number" /\ given.validate = "unset"
    /\ given.min = Num(5) /\ given.max = Num(1)
    /\ given.range = Arr(<<Num(-1)>>)
    /\ call.param = Num(-1)
    /\ call.result = Result(TRUE, Num(-1))

\* the scalar schema with the constraints of an array form
ScalarOf(s) ==
    CASE s.type = "string[]" -> string([range |-> s.range])
      [] s.type = "number[]" ->
           number([range |-> s.range, min |-> s.min, max |-> s.max])
      [] s.type = "boolean[]" -> boolean(NoOptions)

C15_MergeLastWins ==
    [][last'.op = "merge" =>
         LET a == last'.a
             b == last'.b
             was(c) == mappings[instances[c].fieldSchemas]
             now(c) == mappings'[instances'[c].fieldSchemas]
         IN /\ \A name \in DOMAIN was(b) :
                  name \in DOMAIN now(a) /\ now(a)[name] = was(b)[name]
            /\ \A name \in DOMAIN was(a) \ DOMAIN was(b) :
                  name \in DOMAIN now(a) /\ now(a)[name] = was(a)[name]
            /\ now(b) = was(b)
            /\ last'.returned = a]_vars

\* C15's case: a merge of another instance with its own object, in which a
\* name of a was overwritten by b's schema and another name of a was kept
C15_Witness ==
    /\ last.op = "merge" /\ last.collided /\ last.kept
    /\ instances[last.a].fieldSchemas # instances[last.b].fieldSchemas
    /\ \A name \in DOMAIN FieldSchemasOf(last.b) :
          FieldSchemasOf(last.a)[name] = FieldSchemasOf(last.b)[name]

\* C18: a.merge(b) changes the fields validated by a only: the field schemas
\* of every other ObjectSchema instance, one that was given the same
\* fieldSchemas object as a included, are the same before and after.
C18_MergeIsolated ==
    [][last'.op = "merge" =>
         \A c \in 1..Len(instances) \ {last'.a} :
            mappings'[instances'[c].fieldSchemas]
              = mappings[instances[c].fieldSchemas]]_vars

=============================================================================
